---- MODULE Spec2Model ----
(***************************************************************************)
(* Model of github.com/bobg/retry: Tryer.Try (the attempt loop), calcDelay *)
(* (the backoff/jitter calculator) and the three error wrappers.           *)
(*                                                                         *)
(* One call of Try is a process with a program counter:                    *)
(*   "loop"    at the head of the for loop, about to call f(n)             *)
(*   "running" inside f(n)                                                 *)
(*   "select"  tr.after(delay) has been called, the select statement has   *)
(*             not yet polled its two channels                             *)
(*   "blocked" the select found neither channel ready and parked           *)
(*   "done"    Try has returned                                            *)
(* The context and the timer are the environment: Cancel and TimerFire.    *)
(* Durations are signed integers of DurBits bits (int64 scaled down),      *)
(* Scale is the rational Scale/ScaleDen, Rand returns r/RandDen.           *)
(***************************************************************************)
EXTENDS Integers, Sequences, FiniteSets, TLC

\* ---- bounds of the model ----
MaxMax == 3
DurBits == 9

\* the attempt counter is followed up to MaxTries attempts
MaxTries == MaxMax + 1

ScaleDen == 2
RandDen == 10

MaxDuration == 2 ^ (DurBits - 1) - 1
MinDuration == 0 - 2 ^ (DurBits - 1)

Errors == {"e1", "e2"}
CtxErrors == {"Canceled", "DeadlineExceeded"}

Delays == {0, 3}
Jitters == {0, 2}
Scales == {0, 2}
MaxDelays == {0, 5}
RandValues == 0 .. (RandDen - 1)

\* a nil IsRetryable field; a non-nil one is the set of errors it accepts
NilFunc == {"nil"}

\* type Tryer struct
Tryer == [Max : -1 .. MaxMax,
          Delay : Delays,
          Jitter : Jitters,
          Scale : Scales,
          MaxDelay : MaxDelays,
          IsRetryable : {NilFunc} \cup SUBSET Errors]

\* tr is the policy; the next group is the state of the Try call that is
\* running: its context, its position, its locals, the timer it waits on and
\* the history of what it did (calls, rets, afterCalls, predCalls, rnd,
\* cancelPoint); other holds the same fields for a second Try call on the
\* same policy while that call's goroutine is not the one running.
VARIABLES tr, ctxErr, pc, n, err, result, delay, timerReady, chosen,
          calls, rets, afterCalls, cancelPoint, rnd, predCalls, other

vars == <<tr, ctxErr, pc, n, err, result, delay, timerReady, chosen,
          calls, rets, afterCalls, cancelPoint, rnd, predCalls, other>>

\* ---- the error wrappers ----
NoResult == [kind |-> "none", Err |-> "nil"]
NilResult == [kind |-> "nil", Err |-> "nil"]
UnretryableError(e) == [kind |-> "UnretryableError", Err |-> e]

\* variant: the wrapper loses its cause
MaxTriesError_noCause(e) == [kind |-> "MaxTriesError", Err |-> "nil"]

MaxTriesError(e) == [kind |-> "MaxTriesError", Err |-> e]

\* variant: the cancellation case returns nil
ContextError_swallowed(e) == NilResult

\* variant: the cancellation case wraps the operation's error
ContextError_opErr(e) == [kind |-> "ContextError", Err |-> err]

ContextError(e) == [kind |-> "ContextError", Err |-> e]

\* errors.Unwrap of a value returned by Try
Unwrap(res) == res.Err

\* ---- calcDelay ----
\* integer part of a / b (b > 0), rounding toward zero as a Go conversion does
TruncDiv(a, b) == IF a >= 0 THEN a \div b ELSE 0 - ((0 - a) \div b)

\* time.Duration(x) for a float64 x holding the integer x: the value itself
\* when it fits, implementation-dependent otherwise (the minimum on amd64,
\* saturated on arm64)
ToDuration(x) ==
    IF x >= MinDuration /\ x <= MaxDuration THEN {x}
    ELSE {MinDuration, MaxDuration}

\* two's complement wrap-around of a Duration sum
Wrap(x) == ((x - MinDuration) % (2 ^ DurBits)) + MinDuration

\* math.Pow(1+tr.Scale, float64(k-1)) as the fraction PowNum / PowDen
PowNum(s, k) == (ScaleDen + s) ^ (k - 1)
PowDen(k) == ScaleDen ^ (k - 1)

\* variant: the exponent is the number of attempts made, not one less
Scaled_expN(t, k) ==
    IF t.Scale > 0
    THEN ToDuration(TruncDiv(t.Delay * PowNum(t.Scale, k + 1), PowDen(k + 1)))
    ELSE {t.Delay}

Scaled(t, k) ==
    IF t.Scale > 0
    THEN ToDuration(TruncDiv(t.Delay * PowNum(t.Scale, k), PowDen(k)))
    ELSE {t.Delay}

\* variant: the ceiling is not applied
Capped_none(t, d) == d

Capped(t, d) == IF t.MaxDelay > 0 /\ d > t.MaxDelay THEN t.MaxDelay ELSE d

EffJitter(t, d) == IF t.Jitter > d THEN d ELSE t.Jitter

\* r is the numerator of the value tr.Rand returned
AddJitter(t, d, r) ==
    LET jitter == EffJitter(t, d)
    IN IF jitter > 0
       THEN Wrap(d + TruncDiv(jitter * (2 * r - RandDen), RandDen))
       ELSE d

\* calcDelay(k) reaches the call of tr.randFloat: the jitter is positive
CallsRand(t, k) == \E d \in Scaled(t, k) : EffJitter(t, Capped(t, d)) > 0

\* the set of values calcDelay(k) can return when Rand returns r / RandDen
calcDelay(t, k, r) == {AddJitter(t, Capped(t, d), r) : d \in Scaled(t, k)}

\* ---- Try ----
\* variant: attempts numbered from 1
AttemptArg_oneBased(k) == k + 1

\* the argument passed to f
AttemptArg(k) == k

\* variant: n > tr.Max, one attempt too many
MaxReached_offByOne(t, k) == t.Max >= 0 /\ k > t.Max

\* variant: the sign of Max is not tested
MaxReached_noSign(t, k) == k >= t.Max

\* variant: n == tr.Max, which a Max of 0 never meets
MaxReached_equal(t, k) == t.Max >= 0 /\ k = t.Max

\* tr.Max >= 0 && n >= tr.Max
MaxReached(t, k) == t.Max >= 0 /\ k >= t.Max

\* variant: the predicate's answer is not negated
Rejected_inverted(t, e) == t.IsRetryable # NilFunc /\ e \in t.IsRetryable

\* tr.IsRetryable != nil && !tr.IsRetryable(err)
Rejected(t, e) == t.IsRetryable # NilFunc /\ e \notin t.IsRetryable

\* Try reaches the call tr.IsRetryable(err): e is an error, the limit test
\* did not return, and the field is not nil
Consults(t, e, k) ==
    e # "nil" /\ ~MaxReached(t, k + 1) /\ t.IsRetryable # NilFunc

\* variant: the attempt limit is tested before the nil test
Classify_maxFirst(t, e, k) ==
    IF MaxReached(t, k + 1) THEN "MaxTriesError"
    ELSE IF e = "nil" THEN "nil"
    ELSE IF Rejected(t, e) THEN "UnretryableError"
    ELSE "retry"

\* variant: the predicate is asked before the attempt limit is tested
Classify_predFirst(t, e, k) ==
    IF e = "nil" THEN "nil"
    ELSE IF Rejected(t, e) THEN "UnretryableError"
    ELSE IF MaxReached(t, k + 1) THEN "MaxTriesError"
    ELSE "retry"

\* what Try does with the value e returned by f when n attempts were made
\* before it: "nil", "MaxTriesError", "UnretryableError" or "retry"
Classify(t, e, k) ==
    IF e = "nil" THEN "nil"
    ELSE IF MaxReached(t, k + 1) THEN "MaxTriesError"
    ELSE IF Rejected(t, e) THEN "UnretryableError"
    ELSE "retry"

\* where the context of a call stood when it was cancelled: the position of
\* the call, the number of calls of f and of tr.after made, and whether the
\* timer's channel was ready
NotCancelled == [pc |-> "none", calls |-> 0, waits |-> 0, timer |-> FALSE]
CancelledBefore == [pc |-> "before", calls |-> 0, waits |-> 0, timer |-> FALSE]

\* the state of a Try call at its entry, with a context whose Err() is c
CallState(c) ==
    [ctxErr |-> c, pc |-> "loop", n |-> 0, err |-> "nil", result |-> NoResult,
     delay |-> 0, timerReady |-> FALSE, chosen |-> "none", calls |-> <<>>,
     rets |-> <<>>, afterCalls |-> 0,
     cancelPoint |-> IF c = "nil" THEN NotCancelled ELSE CancelledBefore,
     rnd |-> 0, predCalls |-> 0]

Init ==
    /\ tr \in Tryer
    /\ ctxErr \in {"nil"} \cup CtxErrors
    /\ pc = "loop"
    /\ n = 0
    /\ err = "nil"
    /\ result = NoResult
    /\ delay = 0
    /\ timerReady = FALSE
    /\ chosen = "none"
    /\ calls = <<>>
    /\ rets = <<>>
    /\ afterCalls = 0
    /\ cancelPoint = IF ctxErr = "nil" THEN NotCancelled ELSE CancelledBefore
    /\ rnd = 0
    /\ predCalls = 0
    /\ other = CallState("nil")

\* variant: the context is tested before f is called
Invoke_ctxFirst ==
    /\ pc = "loop"
    /\ Len(calls) < MaxTries
    /\ IF ctxErr # "nil"
       THEN /\ result' = ContextError(ctxErr)
            /\ pc' = "done"
            /\ UNCHANGED calls
       ELSE /\ calls' = Append(calls, AttemptArg(n))
            /\ pc' = "running"
            /\ UNCHANGED result
    /\ UNCHANGED <<other, rnd, predCalls, tr, ctxErr, n, err, delay,
                   timerReady, chosen, rets, afterCalls, cancelPoint>>

\* err := f(n): the call
Invoke ==
    /\ pc = "loop"
    /\ Len(calls) < MaxTries
    /\ calls' = Append(calls, AttemptArg(n))
    /\ pc' = "running"
    /\ UNCHANGED <<other, rnd, predCalls, tr, ctxErr, n, err, result, delay,
                   timerReady, chosen, rets, afterCalls, cancelPoint>>

\* variant: the timer is started after every failure, before the tests
Return_timerFirst(e) ==
    /\ pc = "running"
    /\ rets' = Append(rets, e)
    /\ err' = e
    /\ predCalls' = IF Consults(tr, e, n) THEN predCalls + 1 ELSE predCalls
    /\ LET c == Classify(tr, e, n)
       IN /\ n' = IF c = "nil" THEN n ELSE n + 1
          /\ IF c = "retry"
             THEN /\ \E r \in RandValues :
                        /\ delay' \in calcDelay(tr, n + 1, r)
                        /\ rnd' = IF CallsRand(tr, n + 1) THEN r ELSE rnd
                  /\ afterCalls' = afterCalls + 1
                  /\ timerReady' = FALSE
                  /\ pc' = "select"
                  /\ result' = result
             ELSE /\ result' = CASE c = "nil" -> NilResult
                                 [] c = "MaxTriesError" -> MaxTriesError(e)
                                 [] OTHER -> UnretryableError(e)
                  /\ pc' = "done"
                  /\ afterCalls' = IF c = "nil" THEN afterCalls
                                   ELSE afterCalls + 1
                  /\ UNCHANGED <<delay, timerReady, rnd>>
    /\ UNCHANGED <<other, tr, ctxErr, chosen, calls, cancelPoint>>

\* f(n) returns e; Try classifies it and either returns or starts the timer
Return(e) ==
    /\ pc = "running"
    /\ rets' = Append(rets, e)
    /\ err' = e
    /\ predCalls' = IF Consults(tr, e, n) THEN predCalls + 1 ELSE predCalls
    /\ LET c == Classify(tr, e, n)
       IN /\ n' = IF c = "nil" THEN n ELSE n + 1
          /\ IF c = "retry"
             THEN /\ \E r \in RandValues :
                        /\ delay' \in calcDelay(tr, n + 1, r)
                        /\ rnd' = IF CallsRand(tr, n + 1) THEN r ELSE rnd
                  /\ afterCalls' = afterCalls + 1
                  /\ timerReady' = FALSE
                  /\ pc' = "select"
                  /\ result' = result
             ELSE /\ result' = CASE c = "nil" -> NilResult
                                 [] c = "MaxTriesError" -> MaxTriesError(e)
                                 [] OTHER -> UnretryableError(e)
                  /\ pc' = "done"
                  /\ UNCHANGED <<delay, afterCalls, timerReady, rnd>>
    /\ UNCHANGED <<other, tr, ctxErr, chosen, calls, cancelPoint>>

\* select, first poll: case <-ctx.Done() is ready and is the one picked
SelectCtx ==
    /\ pc = "select"
    /\ ctxErr # "nil"
    /\ result' = ContextError(ctxErr)
    /\ pc' = "done"
    /\ UNCHANGED <<other, rnd, predCalls, tr, ctxErr, n, err, delay,
                   timerReady, chosen, calls, rets, afterCalls, cancelPoint>>

\* select, first poll: case <-tr.after(delay) is ready and is the one picked
SelectTimer ==
    /\ pc = "select"
    /\ timerReady
    /\ timerReady' = FALSE
    /\ pc' = "loop"
    /\ UNCHANGED <<other, rnd, predCalls, tr, ctxErr, n, err, result, delay,
                   chosen, calls, rets, afterCalls, cancelPoint>>

\* select, first poll: neither case is ready, the goroutine parks
SelectBlock ==
    /\ pc = "select"
    /\ ctxErr = "nil"
    /\ ~timerReady
    /\ pc' = "blocked"
    /\ chosen' = "none"
    /\ UNCHANGED <<other, rnd, predCalls, tr, ctxErr, n, err, result, delay,
                   timerReady, calls, rets, afterCalls, cancelPoint>>

\* the parked select resumes with the case that woke it
Resume ==
    /\ pc = "blocked"
    /\ chosen # "none"
    /\ chosen' = "none"
    /\ IF chosen = "ctx"
       THEN /\ result' = ContextError(ctxErr)
            /\ pc' = "done"
            /\ UNCHANGED timerReady
       ELSE /\ timerReady' = FALSE
            /\ pc' = "loop"
            /\ UNCHANGED result
    /\ UNCHANGED <<other, rnd, predCalls, tr, ctxErr, n, err, delay, calls,
                   rets, afterCalls, cancelPoint>>

\* the context is cancelled (cancel() or its deadline); a parked select is
\* woken by the first channel that becomes ready
Cancel(c) ==
    /\ ctxErr = "nil"
    /\ ctxErr' = c
    /\ cancelPoint' = [pc |-> pc, calls |-> Len(calls), waits |-> afterCalls,
                       timer |-> timerReady]
    /\ chosen' = IF pc = "blocked" /\ chosen = "none" THEN "ctx" ELSE chosen
    /\ UNCHANGED <<other, rnd, predCalls, tr, pc, n, err, result, delay,
                   timerReady, calls, rets, afterCalls>>

\* the channel returned by tr.after delivers its value
TimerFire ==
    /\ pc \in {"select", "blocked"}
    /\ ~timerReady
    /\ timerReady' = TRUE
    /\ chosen' = IF pc = "blocked" /\ chosen = "none" THEN "timer" ELSE chosen
    /\ UNCHANGED <<other, rnd, predCalls, tr, ctxErr, pc, n, err, result,
                   delay, calls, rets, afterCalls, cancelPoint>>

Next ==
    \/ Invoke
    \/ \E e \in Errors \cup {"nil"} : Return(e)
    \/ SelectCtx
    \/ SelectTimer
    \/ SelectBlock
    \/ Resume
    \/ \E c \in CtxErrors : Cancel(c)
    \/ TimerFire

Spec == Init /\ [][Next]_vars

\* One more iteration of the loop once the counter has left the range the
\* model follows: f is called and returns e, and Try classifies e as usual;
\* the counter and the histories stay where they are.
Beyond(e) ==
    /\ pc = "loop"
    /\ Len(calls) >= MaxTries
    /\ err' = e
    /\ LET c == Classify(tr, e, n)
       IN IF c = "retry"
          THEN /\ \E r \in RandValues :
                     /\ delay' \in calcDelay(tr, n, r)
                     /\ rnd' = IF CallsRand(tr, n) THEN r ELSE rnd
               /\ timerReady' = FALSE
               /\ pc' = "select"
               /\ result' = result
          ELSE /\ result' = CASE c = "nil" -> NilResult
                              [] c = "MaxTriesError" -> MaxTriesError(e)
                              [] OTHER -> UnretryableError(e)
               /\ pc' = "done"
               /\ UNCHANGED <<delay, timerReady, rnd>>
    /\ UNCHANGED <<other, predCalls, tr, ctxErr, n, chosen, calls, rets,
                   afterCalls, cancelPoint>>

LiveNext ==
    \/ Next
    \/ \E e \in Errors \cup {"nil"} : Beyond(e)

\* Every call of f returns, every timer delivers, the goroutine running Try
\* is scheduled, and the select's uniform random choice does not pass over
\* a ready ctx.Done() forever.
\* The delay settings do not enter the control flow of Try; the liveness
\* specification fixes them to one policy that scales and caps.
LiveInit ==
    /\ Init
    /\ tr.Delay = 3
    /\ tr.Jitter = 0
    /\ tr.Scale = 2
    /\ tr.MaxDelay = 5

LiveSpec ==
    /\ LiveInit
    /\ [][LiveNext]_vars
    /\ WF_vars(Invoke)
    /\ WF_vars(\E e \in Errors \cup {"nil"} : Return(e))
    /\ WF_vars(\E e \in Errors \cup {"nil"} : Beyond(e))
    /\ WF_vars(TimerFire)
    /\ WF_vars(SelectTimer)
    /\ WF_vars(SelectBlock)
    /\ WF_vars(Resume)
    /\ SF_vars(SelectCtx)

\* ---- two Try calls on one policy ----
\* the state of the running call, as a record like other
Self ==
    [ctxErr |-> ctxErr, pc |-> pc, n |-> n, err |-> err, result |-> result,
     delay |-> delay, timerReady |-> timerReady, chosen |-> chosen,
     calls |-> calls, rets |-> rets, afterCalls |-> afterCalls,
     cancelPoint |-> cancelPoint, rnd |-> rnd, predCalls |-> predCalls]

\* variant: the attempt counter lives in the shared policy, not in the call
SwitchCalls_sharedCounter ==
    /\ other' = [Self EXCEPT !.n = other.n]
    /\ ctxErr' = other.ctxErr
    /\ pc' = other.pc
    /\ err' = other.err
    /\ result' = other.result
    /\ delay' = other.delay
    /\ timerReady' = other.timerReady
    /\ chosen' = other.chosen
    /\ calls' = other.calls
    /\ rets' = other.rets
    /\ afterCalls' = other.afterCalls
    /\ cancelPoint' = other.cancelPoint
    /\ rnd' = other.rnd
    /\ predCalls' = other.predCalls
    /\ UNCHANGED <<tr, n>>

\* The scheduler switches goroutines: the running Try call is set aside and
\* the other one runs. Try has a value receiver and keeps n, err and delay
\* in locals, so all of a call's state goes with it; tr is only read.
SwitchCalls ==
    /\ other' = Self
    /\ ctxErr' = other.ctxErr
    /\ pc' = other.pc
    /\ n' = other.n
    /\ err' = other.err
    /\ result' = other.result
    /\ delay' = other.delay
    /\ timerReady' = other.timerReady
    /\ chosen' = other.chosen
    /\ calls' = other.calls
    /\ rets' = other.rets
    /\ afterCalls' = other.afterCalls
    /\ cancelPoint' = other.cancelPoint
    /\ rnd' = other.rnd
    /\ predCalls' = other.predCalls
    /\ UNCHANGED tr

\* the policies shared by the two calls: the delay fields are fixed, they
\* do not enter the control flow, and Max is small to keep the product of
\* the two calls' states within reach
ConcTryer == [Max : {1, 2},
              Delay : {3},
              Jitter : {0},
              Scale : {0},
              MaxDelay : {0},
              IsRetryable : {NilFunc, {"e1"}}]

ConcInit ==
    /\ tr \in ConcTryer
    /\ ctxErr \in {"nil", "Canceled"}
    /\ pc = "loop"
    /\ n = 0
    /\ err = "nil"
    /\ result = NoResult
    /\ delay = 0
    /\ timerReady = FALSE
    /\ chosen = "none"
    /\ calls = <<>>
    /\ rets = <<>>
    /\ afterCalls = 0
    /\ cancelPoint = IF ctxErr = "nil" THEN NotCancelled ELSE CancelledBefore
    /\ rnd = 0
    /\ predCalls = 0
    /\ other \in {CallState(c) : c \in {"nil", "Canceled"}}

ConcNext ==
    \/ Next
    \/ SwitchCalls

ConcSpec == ConcInit /\ [][ConcNext]_vars

\* ---- calcDelay on its own ----
\* calcDelay is called with 1 .. DelayMaxN attempts made
DelayMaxN == 4

DelayDelays == {0, 3, 100}
DelayJitters == {0, 2, 50, 120}
DelayScales == {0, 1, 2}
DelayMaxDelays == {0, 5, 150}

\* the policies calcDelay is applied to: the delay fields are all it reads
DelayTryer == [Max : {-1},
               Delay : DelayDelays,
               Jitter : DelayJitters,
               Scale : DelayScales,
               MaxDelay : DelayMaxDelays,
               IsRetryable : {NilFunc}]

\* pc is "calcDelay" on entry to tr.calcDelay(n) and "returned" after it
DelayInit ==
    /\ tr \in DelayTryer
    /\ n \in 1 .. DelayMaxN
    /\ pc = "calcDelay"
    /\ ctxErr = "nil"
    /\ err = "nil"
    /\ result = NoResult
    /\ delay = 0
    /\ timerReady = FALSE
    /\ chosen = "none"
    /\ calls = <<>>
    /\ rets = <<>>
    /\ afterCalls = 0
    /\ cancelPoint = NotCancelled
    /\ rnd = 0
    /\ predCalls = 0
    /\ other = CallState("nil")

\* tr.calcDelay(n) runs and returns; Rand, if called, returns r / RandDen
CallCalcDelay(r) ==
    /\ pc = "calcDelay"
    /\ delay' \in calcDelay(tr, n, r)
    /\ rnd' = IF CallsRand(tr, n) THEN r ELSE rnd
    /\ pc' = "returned"
    /\ UNCHANGED <<other, predCalls, tr, ctxErr, n, err, result, timerReady,
                   chosen, calls, rets, afterCalls, cancelPoint>>

DelayNext == \E r \in RandValues : CallCalcDelay(r)

DelaySpec == DelayInit /\ [][DelayNext]_vars

TypeOK ==
    /\ tr \in Tryer
    /\ pc \in {"loop", "running", "select", "blocked", "done"}
    /\ n \in 0 .. MaxTries
    /\ delay \in MinDuration .. MaxDuration
\* ---- properties ----
Max1(m) == IF m < 1 THEN 1 ELSE m
LastRet == rets[Len(rets)]
AllFailed == \A k \in 1 .. Len(rets) : rets[k] # "nil"
InOrder == \A k \in 1 .. Len(calls) : calls[k] = k - 1

\* the policy has a predicate and the predicate answers false for e
PredRejects(e) == tr.IsRetryable # NilFunc /\ e \notin tr.IsRetryable

\* budget remains after k attempts
BudgetLeft(k) == tr.Max < 0 \/ k < tr.Max

\* the predicate rejects none of the errors it is consulted for: those of
\* the attempts before the one that exhausts the budget
NoneRejected ==
    \A k \in 1 .. Len(rets) :
        (rets[k] # "nil" /\ BudgetLeft(k)) => ~PredRejects(rets[k])

\* C1 as stated: with Max = M >= 0 and an operation that fails on every
\* invocation, Try makes exactly max(M,1) invocations and returns a
\* MaxTriesError wrapping the last error, whatever the predicate is.
C1_Original ==
    (pc = "done" /\ tr.Max >= 0 /\ AllFailed)
        => (Len(calls) = Max1(tr.Max) /\ result = MaxTriesError(LastRet))

\* C1 amended: with Max = M >= 0, an operation that fails on every
\* invocation, a predicate that rejects none of the errors it is consulted
\* for and a call that does not end in ContextError, Try makes exactly
\* max(M,1) invocations and returns a MaxTriesError wrapping the last error.
C1_MaxTries ==
    (pc = "done" /\ tr.Max >= 0 /\ AllFailed /\ NoneRejected
                 /\ result.kind # "ContextError")
        => (Len(calls) = Max1(tr.Max) /\ result = MaxTriesError(LastRet))

C1_Witness ==
    /\ pc = "done"
    /\ tr.Max = MaxMax
    /\ tr.IsRetryable = {"e1"}
    /\ AllFailed
    /\ Len(calls) = MaxMax
    /\ LastRet = "e2"
    /\ result = MaxTriesError("e2")

\* C2: once the operation has failed on the attempts below i and succeeded
\* on attempt index i, with i < Max, Try has returned nil and the operation
\* was invoked exactly i+1 times, with the indices 0..i.
C2_SuccessOnI ==
    \A i \in 0 .. (MaxTries - 1) :
        (Len(rets) > i /\ rets[i + 1] = "nil" /\ i < tr.Max)
            => /\ pc = "done"
               /\ result = NilResult
               /\ Len(calls) = i + 1
               /\ InOrder
               /\ \A k \in 1 .. i : rets[k] # "nil"

C2_Witness ==
    /\ pc = "done"
    /\ tr.Max = MaxMax
    /\ Len(rets) = MaxMax
    /\ LastRet = "nil"
    /\ result = NilResult

\* C3 as stated: whenever the predicate rejects the error of attempt i, at
\* any attempt index, Try returns an UnretryableError wrapping it after
\* exactly i+1 invocations.
C3_Original ==
    \A i \in 0 .. (MaxTries - 1) :
        (Len(rets) > i /\ rets[i + 1] # "nil" /\ PredRejects(rets[i + 1]))
            => /\ pc = "done"
               /\ result = UnretryableError(rets[i + 1])
               /\ Len(calls) = i + 1

\* C3 amended: when the predicate rejects the error of attempt i and that
\* attempt does not exhaust the budget (Max < 0 or i+1 < Max), Try returns
\* an UnretryableError wrapping that error after exactly i+1 invocations,
\* having started no wait after it: i timers, one per earlier failure.
C3_Unretryable ==
    \A i \in 0 .. (MaxTries - 1) :
        (Len(rets) > i /\ rets[i + 1] # "nil" /\ PredRejects(rets[i + 1])
                       /\ BudgetLeft(i + 1))
            => /\ pc = "done"
               /\ result = UnretryableError(rets[i + 1])
               /\ Len(calls) = i + 1
               /\ afterCalls = i

C3_Witness ==
    /\ pc = "done"
    /\ tr.Max = MaxMax
    /\ tr.IsRetryable = {"e1"}
    /\ rets = <<"e1", "e2">>
    /\ result = UnretryableError("e2")
    /\ afterCalls = 1

\* C4: when the context is cancelled while Try is in the wait that follows
\* a failed attempt, the operation is not invoked again and Try returns a
\* ContextError, even if the timer's channel becomes ready afterwards.
C4_CancelInWait ==
    cancelPoint.pc \in {"select", "blocked"}
        => /\ Len(calls) = cancelPoint.calls
           /\ pc = "done" => result.kind = "ContextError"

\* C5 as stated: every non-nil result of Try wraps the error returned by the
\* last invocation of the operation.
C5_Original ==
    (pc = "done" /\ result # NilResult) => Unwrap(result) = LastRet

\* C5 amended: an UnretryableError or a MaxTriesError wraps the error
\* returned by the last invocation of the operation; a ContextError wraps
\* the context's error, not the operation's.
C5_Causes ==
    pc = "done" =>
        /\ result.kind \in {"UnretryableError", "MaxTriesError"}
              => (Unwrap(result) = LastRet /\ Unwrap(result) \in Errors)
        /\ result.kind = "ContextError"
              => (Unwrap(result) = ctxErr /\ Unwrap(result) \in CtxErrors)

C5_Witness ==
    /\ pc = "done"
    /\ result = MaxTriesError("e2")
    /\ Len(rets) = 2
    /\ rets[1] = "e1"

\* C6: a Try call that has returned produced exactly one of nil,
\* UnretryableError, MaxTriesError, ContextError, and nil if and only if
\* the last invocation of the operation returned nil; nothing is produced
\* before the return.
C6_Outcomes ==
    /\ pc # "done" => result = NoResult
    /\ pc = "done" =>
        /\ result.kind \in {"nil", "UnretryableError", "MaxTriesError",
                            "ContextError"}
        /\ result.kind = "nil" <=> LastRet = "nil"
        /\ result.kind = "nil" => result = NilResult

C6_Witness ==
    /\ pc = "done"
    /\ result.kind = "ContextError"
    /\ LastRet # "nil"
    /\ Len(calls) = 2

\* C7: a Try call that has returned has invoked the operation at least once,
\* the first time with index 0, whatever Max is and even when the context
\* was cancelled before the call.
C7_AtLeastOnce ==
    pc = "done" => (Len(calls) >= 1 /\ calls[1] = 0)

C7_Witness ==
    /\ pc = "done"
    /\ cancelPoint.pc = "before"
    /\ tr.Max = 0
    /\ Len(calls) = 1

\* C8: the k-th invocation of the operation receives the index k-1.
C8_Indices == InOrder /\ Len(calls) \in {n, n + 1}

C8_Witness == Len(calls) = MaxTries /\ calls[MaxTries] = MaxTries - 1

\* C9: Try eventually returns when Max >= 0, when the context is cancelled
\* at some point, or when the predicate rejects the error of an attempt.
C9_Terminates ==
    (tr.Max >= 0 \/ ctxErr # "nil" \/ (err # "nil" /\ PredRejects(err)))
        ~> (pc = "done")

C9_Witness ==
    /\ pc = "done"
    /\ tr.Max < 0
    /\ tr.IsRetryable = NilFunc
    /\ Len(calls) = MaxTries
    /\ cancelPoint.pc = "running"
    /\ result.kind = "ContextError"

\* C10: with a negative Max, Try never returns a MaxTriesError: it returns
\* only on success, on an error the predicate rejects, or from a wait on a
\* cancelled context; after a failure the predicate accepts it is waiting
\* or retrying.
C10_Unlimited ==
    tr.Max < 0 =>
        /\ result.kind # "MaxTriesError"
        /\ pc = "done" =>
              \/ result = NilResult /\ LastRet = "nil"
              \/ result = UnretryableError(LastRet) /\ PredRejects(LastRet)
              \/ result = ContextError(ctxErr) /\ ctxErr # "nil"
                    /\ ~PredRejects(LastRet)
        /\ (Len(rets) = Len(calls) /\ Len(rets) >= 1 /\ LastRet # "nil"
                /\ ~PredRejects(LastRet))
              => \/ pc \in {"select", "blocked", "loop"}
                 \/ pc = "done" /\ result.kind = "ContextError"

C10_Witness ==
    /\ tr.Max < 0
    /\ pc = "select"
    /\ n = MaxTries
    /\ tr.IsRetryable = {"e1"}

\* C11: Try holds a ContextError only if its context has been cancelled, and
\* the error wrapped is the context's own error (cancelled or deadline
\* exceeded), not the operation's and not nil.
C11_ContextCause ==
    result.kind = "ContextError" =>
        /\ pc = "done"
        /\ ctxErr \in CtxErrors
        /\ cancelPoint.pc # "none"
        /\ result.Err = ctxErr

C11_Witness ==
    /\ pc = "done"
    /\ result = ContextError("DeadlineExceeded")
    /\ cancelPoint.pc = "blocked"
    /\ Len(calls) = 2

\* ---- calcDelay ----
MinOf(a, b) == IF a < b THEN a ELSE b

\* The reference formula, in exact arithmetic, as numerators over the
\* common denominator RefDen(k) * RandDen:
\*   scaled = Delay * (1+Scale)^(k-1)
\*   capped = min(scaled, MaxDelay) if MaxDelay > 0 else scaled
\*   result = capped + min(Jitter, capped) * (2r - 1)
RefDen(k) == ScaleDen ^ (k - 1)
RefScaled(t, k) == t.Delay * (ScaleDen + t.Scale) ^ (k - 1)
RefCapped(t, k) ==
    IF t.MaxDelay > 0
    THEN MinOf(RefScaled(t, k), t.MaxDelay * RefDen(k))
    ELSE RefScaled(t, k)
RefResult(t, k, r) ==
    RefCapped(t, k) * RandDen
        + MinOf(t.Jitter * RefDen(k), RefCapped(t, k)) * (2 * r - RandDen)

\* d is the reference value up to the rounding of durations to whole units
\* (the scaled delay and the jitter are each cut to an integer)
NearRef(t, k, r, d) ==
    LET D == RefDen(k) * RandDen
        diff == d * D - RefResult(t, k, r)
    IN diff < 3 * D /\ 0 - diff < 3 * D

\* the policy of TestCalcDelay: Delay 100, Jitter 50, Scale 0.5, no MaxDelay
IsExample(t) ==
    /\ t.Delay = 100
    /\ t.Jitter = 50
    /\ 2 * t.Scale = ScaleDen
    /\ t.MaxDelay = 0

\* with Rand returning 0.1, 0.9, 0.2 the delays for 1, 2, 3 attempts made
\* are 60, 190, 195
ExampleHolds ==
    (pc = "returned" /\ IsExample(tr)) =>
        /\ (n = 1 /\ 10 * rnd = RandDen) => delay = 60
        /\ (n = 2 /\ 10 * rnd = 9 * RandDen) => delay = 190
        /\ (n = 3 /\ 10 * rnd = 2 * RandDen) => delay = 195

\* C12: the delay calcDelay returns is never negative, for every number of
\* attempts made, every policy and every value of Rand.
C12_NonNegative == pc = "returned" => delay >= 0

\* C13: calcDelay returns the value of the reference formula for its
\* (n, policy, r), and 60, 190, 195 on the example of TestCalcDelay.
C13_Reference ==
    /\ pc = "returned" => NearRef(tr, n, rnd, delay)
    /\ ExampleHolds

\* the scaled delay, and the capped delay plus the jitter, fit a Duration
InRange(t, k) ==
    /\ RefScaled(t, k) <= MaxDuration * RefDen(k)
    /\ RefCapped(t, k) + t.Jitter * RefDen(k) <= MaxDuration * RefDen(k)

\* within the range of Duration calcDelay is non-negative and follows the
\* reference formula
DelayInRange ==
    (pc = "returned" /\ InRange(tr, n)) =>
        (delay >= 0 /\ NearRef(tr, n, rnd, delay))

ExampleReached ==
    /\ pc = "returned"
    /\ IsExample(tr)
    /\ n = 3
    /\ 10 * rnd = 2 * RandDen
    /\ delay = 195

\* C14: with MaxDelay > 0 the delay before jitter is at most MaxDelay, the
\* jitter amplitude is at most that delay, and the value calcDelay returns
\* is at most MaxDelay + min(Jitter, MaxDelay), whatever Scale and n are.
C14_Ceiling ==
    (pc = "returned" /\ tr.MaxDelay > 0) =>
        /\ delay <= tr.MaxDelay + MinOf(tr.Jitter, tr.MaxDelay)
        /\ \A d \in Scaled(tr, n) :
              /\ Capped(tr, d) <= tr.MaxDelay
              /\ EffJitter(tr, Capped(tr, d)) <= Capped(tr, d)

C14_Witness ==
    /\ pc = "returned"
    /\ tr.MaxDelay = 150
    /\ tr.Delay = 100
    /\ tr.Scale = ScaleDen
    /\ tr.Jitter = 50
    /\ n = DelayMaxN
    /\ delay > tr.MaxDelay

\* ---- concurrent calls ----
\* the number of failed attempts in a history of results
Failures(rs) == Cardinality({k \in 1 .. Len(rs) : rs[k] # "nil"})

\* what a call returns when run alone, from its own results and context:
\* decided by the last result of f, the budget and the predicate
AloneOutcome(c) ==
    LET k == Len(c.rets)
        e == c.rets[k]
    IN IF e = "nil" THEN NilResult
       ELSE IF ~BudgetLeft(k) THEN MaxTriesError(e)
       ELSE IF PredRejects(e) THEN UnretryableError(e)
       ELSE ContextError(c.ctxErr)

\* the call c behaves as a call run alone on its own events: indices in
\* order, one counter step per failure, every attempt but the last one
\* followed by a retry, and the outcome of AloneOutcome
AsAlone(c) ==
    /\ \A k \in 1 .. Len(c.calls) : c.calls[k] = k - 1
    /\ Len(c.calls) = Len(c.rets) + (IF c.pc = "running" THEN 1 ELSE 0)
    /\ c.n = Failures(c.rets)
    /\ c.afterCalls = Failures(c.rets)
          - (IF c.pc = "done" /\ c.result.kind \in {"MaxTriesError",
                                                    "UnretryableError"}
             THEN 1 ELSE 0)
    /\ \A k \in 1 .. (Len(c.rets) - 1) :
          c.rets[k] # "nil" /\ BudgetLeft(k) /\ ~PredRejects(c.rets[k])
    /\ c.pc # "done" => c.result = NoResult
    /\ c.pc = "done" =>
          /\ Len(c.rets) >= 1
          /\ c.result = AloneOutcome(c)
          /\ c.result.kind = "ContextError" => c.ctxErr # "nil"

\* a single call satisfies AsAlone
AloneAsAlone == AsAlone(Self)

\* C15: when two Try calls run concurrently on one policy, under every
\* interleaving each call sees the indices 0, 1, 2, ... and makes the
\* invocations and returns the outcome it would when run alone on the same
\* results of f, timer and cancellation events.
C15_Independent == AsAlone(Self) /\ AsAlone(other)

C15_Witness ==
    /\ pc = "done"
    /\ other.pc = "done"
    /\ result.kind = "ContextError"
    /\ other.result.kind = "MaxTriesError"
    /\ Len(calls) = 1
    /\ Len(other.calls) = 2
    /\ other.rets = <<"e1", "e2">>

\* C16: a failed attempt that exhausts the budget makes Try return a
\* MaxTriesError even when the predicate would reject the error, and the
\* predicate has been called exactly once per failure that left budget.
C16_LimitFirst ==
    /\ (Len(rets) >= 1 /\ Len(rets) = Len(calls) /\ LastRet # "nil"
            /\ ~BudgetLeft(Len(rets)))
          => (pc = "done" /\ result = MaxTriesError(LastRet))
    /\ predCalls =
          IF tr.IsRetryable = NilFunc THEN 0
          ELSE Cardinality({k \in 1 .. Len(rets) :
                               rets[k] # "nil" /\ BudgetLeft(k)})

C16_Witness ==
    /\ pc = "done"
    /\ tr.Max = MaxMax
    /\ tr.IsRetryable = {"e1"}
    /\ LastRet = "e2"
    /\ result = MaxTriesError("e2")
    /\ predCalls = MaxMax - 1

\* the index (from 1) of the invocation that was about to start or was in
\* progress when the context was cancelled
CancelledCall ==
    IF cancelPoint.pc = "running" THEN cancelPoint.calls
    ELSE cancelPoint.calls + 1

C17_Completes ==
    LET k == CancelledCall
    IN /\ (pc = "done" /\ cancelPoint.pc \in {"before", "loop", "running"})
             => Len(rets) >= k
       /\ (cancelPoint.pc \in {"before", "loop", "running"} /\ Len(rets) >= k)
             => /\ rets[k] = "nil" => (pc = "done" /\ result = NilResult)
                /\ (rets[k] # "nil" /\ ~BudgetLeft(k))
                      => (pc = "done" /\ result = MaxTriesError(rets[k]))
                /\ (rets[k] # "nil" /\ BudgetLeft(k) /\ PredRejects(rets[k]))
                      => (pc = "done" /\ result = UnretryableError(rets[k]))
                /\ (rets[k] # "nil" /\ BudgetLeft(k) /\ ~PredRejects(rets[k]))
                      => afterCalls >= k
       /\ result.kind = "ContextError"
             => /\ LastRet # "nil"
                /\ BudgetLeft(Len(rets))
                /\ ~PredRejects(LastRet)
                /\ afterCalls = Len(rets)

\* C17: cancellation is observed only in the wait between attempts. An
\* invocation that the cancellation precedes or interrupts still completes
\* and its result is classified as without cancellation, and a ContextError
\* appears only in a step taken from the wait.
C17_OnlyAtWait ==
    /\ []C17_Completes
    /\ [][(result.kind # "ContextError" /\ result'.kind = "ContextError")
            => pc \in {"select", "blocked"}]_vars

C17_Witness ==
    /\ pc = "done"
    /\ cancelPoint.pc = "running"
    /\ cancelPoint.calls = 2
    /\ result = UnretryableError("e2")
    /\ Len(calls) = 2

\* C18: when the timer's channel was already ready at the moment the context
\* was cancelled during a wait, that wait does not end in a ContextError.
C18_TimerFirst ==
    (cancelPoint.pc \in {"select", "blocked"} /\ cancelPoint.timer
        /\ afterCalls = cancelPoint.waits)
      => result.kind # "ContextError"

\* the same for a select that had parked before the timer fired: the timer
\* woke it, and the later cancellation does not change the case taken
TimerFirstParked ==
    (cancelPoint.pc = "blocked" /\ cancelPoint.timer
        /\ afterCalls = cancelPoint.waits)
      => result.kind # "ContextError"

\* ---- the waits of Try ----
\* the reference delay before jitter, as a whole Duration
RefPre(t, k) == RefCapped(t, k) \div RefDen(k)

\* the reference jitter for Rand = r / RandDen, as a whole Duration
RefJitter(t, k, r) ==
    LET amp == MinOf(t.Jitter, RefPre(t, k))
    IN IF amp > 0
       THEN (IF 2 * r >= RandDen
             THEN (amp * (2 * r - RandDen)) \div RandDen
             ELSE 0 - ((amp * (RandDen - 2 * r)) \div RandDen))
       ELSE 0

\* C19: the duration of the wait after the k-th failed attempt is the
\* reference delay for k: Delay * (1+Scale)^(k-1), exponent 0 for the first
\* wait, capped by MaxDelay, plus the jitter, which is at most Jitter either
\* way.
C19_DelayRequested ==
    pc \in {"select", "blocked"} =>
        /\ n >= 1
        /\ n = Failures(rets)
        /\ afterCalls = n
        /\ delay = RefPre(tr, n) + RefJitter(tr, n, rnd)
        /\ delay - RefPre(tr, n) <= tr.Jitter
        /\ RefPre(tr, n) - delay <= tr.Jitter
        /\ n = 1 => RefPre(tr, n) = tr.Delay
                      \/ (tr.MaxDelay > 0 /\ RefPre(tr, n) = tr.MaxDelay)

C19_Witness ==
    /\ pc = "select"
    /\ n = 3
    /\ tr.Delay = 3
    /\ tr.Scale = 2
    /\ tr.MaxDelay = 0
    /\ tr.Jitter = 2
    /\ delay = RefPre(tr, 3) + 1

\* C20: Try starts a timer exactly once after each failed attempt that is
\* followed by the decision to retry and never after the attempt that ends
\* the call: at return the timers started are one less than the invocations
\* for nil, MaxTriesError and UnretryableError, and as many as the
\* invocations for ContextError.
C20_Waits ==
    /\ afterCalls = Cardinality({k \in 1 .. Len(rets) :
            rets[k] # "nil" /\ BudgetLeft(k) /\ ~PredRejects(rets[k])})
    /\ pc \in {"loop", "select", "blocked"} => afterCalls = Len(calls)
    /\ pc = "running" => afterCalls = Len(calls) - 1
    /\ pc = "done" =>
          /\ result.kind \in {"nil", "MaxTriesError", "UnretryableError"}
                => afterCalls = Len(calls) - 1
          /\ result.kind = "ContextError" => afterCalls = Len(calls)

C20_Witness ==
    /\ pc = "done"
    /\ result.kind = "ContextError"
    /\ Len(calls) = 3
    /\ afterCalls = 3
====
